---- MODULE Spec2Model ----
(***************************************************************************)
(* Publication Artifact Store: the record store (MongoDB collection        *)
(* "publications"), the uploads directory holding the PDF artifacts and    *)
(* the XML sidecars, and the request handlers that keep them together.     *)
(*                                                                         *)
(* Two file-backed variants of the server are modelled:                    *)
(*   "A"  src/unnamed/part_000, lines 1-384   (XML on create and update,   *)
(*        cleanup on delete)                                               *)
(*   "I"  src/index.js, lines 1-320           (XML on create only, no      *)
(*        cleanup on delete)                                               *)
(* The variant is fixed when the process starts.  The database and the     *)
(* uploads directory are persistent: a process may start on a store that   *)
(* an earlier run has filled.                                              *)
(*                                                                         *)
(* A third server (src/index.js, lines 322-516) keeps no store and         *)
(* forwards to a remote instance of the service; its special-issues and    *)
(* delete routes are modelled in front of the file-backed service.         *)
(*                                                                         *)
(* Specifications:                                                         *)
(*   Spec          create, get, update, delete, with failing I/O calls     *)
(*   ServiceSpec   the same routes plus the PDF routes, the queries and    *)
(*                 the forwarding server                                   *)
(*   ClearingSpec  updates that give a field the empty text                *)
(*   ReferenceSpec updates that name the artifact's paths or isSpecialIssue *)
(*   StepSpec      concurrent requests, each handler step by step           *)
(***************************************************************************)
EXTENDS Integers, Sequences, FiniteSets, Bags, TLC

VARIABLES
    variant,    \* which server file is running: "A" or "I"
    records,    \* the collection: ObjectId -> stored document
    pdfFiles,   \* names of the uploaded files present in the uploads directory
    xmlFiles,   \* sidecars in the uploads directory: id text -> XML document
    clock,      \* Date.now()
    nextOid,    \* the ObjectId generator
    created,    \* history: every ObjectId ever handed to an inserted document
    faults,     \* history: how many I/O calls have failed so far
    last,       \* history: the last request and the response it got
    pending     \* the handlers that have begun and not answered yet

vars == <<variant, records, pdfFiles, xmlFiles, clock, nextOid, created,
          faults, last, pending>>

\* ------------------------------------------------------------------ bounds

MaxOid == 2
MaxClock == 2
MaxFaults == 1
MaxInFlight == 2

\* --------------------------------------------------------- values and text

Variants == {"A", "I"}

Fields == {"year", "volume", "issue", "title", "content", "author", "doi",
           "isSpecialIssue"}

NumberFields == {"year", "issue"}

\* Number(text) yields NaN for a text that is no number.
NaN == -1

NumTable == {<<"1", 1>>, <<"2", 2>>, <<"2021", 2021>>, <<"2022", 2022>>}

Number(s) ==
    IF \E p \in NumTable : p[1] = s
    THEN (CHOOSE p \in NumTable : p[1] = s)[2]
    ELSE NaN

\* The decimal text of a stored number (xmlbuilder2's txt of a Number).
NumText(n) ==
    IF \E p \in NumTable : p[2] = n
    THEN (CHOOSE p \in NumTable : p[2] = n)[1]
    ELSE "NaN"

\* String(b) of a stored Boolean.
BoolText(b) == IF b THEN "true" ELSE "false"

\* Mongoose's Boolean cast of a request text.
CastBoolean(s) == s = "true"

\* An ObjectId is written as 24 hex digits; the id text of a request may
\* spell the same ObjectId in lower or in upper case, or be no ObjectId.
IdForms == {"lower", "upper"}

BadId == [oid |-> 0, form |-> "bad"]

ReqIds == {[oid |-> n, form |-> f] : n \in 1..MaxOid, f \in IdForms} \cup {BadId}

\* The id texts as the service itself writes them, and one that is no ObjectId.
PlainIds == {id \in ReqIds : id.form # "upper"}

\* mongoose.Types.ObjectId.isValid
isValid(id) == id.form # "bad"

\* The ObjectId a valid id text is cast to: hex digits are read in either case.
CastObjectId(id) == id.oid

\* ObjectId.prototype.toString: lower-case hex.
toString(oid) == [oid |-> oid, form |-> "lower"]

\* ------------------------------------------------------------ the requests

Restrict(b, keys) == [f \in (DOMAIN b) \cap keys |-> b[f]]

EmptyBody == [f \in {} |-> ""]

bFull1 == [year |-> "2021", volume |-> "A", issue |-> "1", title |-> "T",
           content |-> "c", author |-> "au", doi |-> "d1",
           isSpecialIssue |-> "true"]

bFull2 == [year |-> "2022", volume |-> "B", issue |-> "2", title |-> "U",
           content |-> "c", author |-> "au", doi |-> "d2"]

CreateBodies ==
    { bFull1,
      bFull2,
      Restrict(bFull1, Fields \ {"title"}),
      Restrict(bFull1, Fields \ {"doi"}),
      [bFull2 EXCEPT !.year = "abc"] }

UpdateBodies ==
    { EmptyBody,
      [title |-> "X"],
      [year |-> "2022", volume |-> "B"],
      [issue |-> "abc"] }

\* Bodies of a PUT that give a field the empty text.
ClearingBodies == { [title |-> ""], [doi |-> ""] }

\* JSON null in a request body (it is no text).
Null == "<null>"

\* Bodies of a PUT that name the paths of the artifact, or isSpecialIssue.
ReferenceBodies ==
    { [title |-> "X"],
      [pdf |-> "gone.pdf"],
      [pdf |-> "uploads/0.pdf"],
      [pdfContentType |-> "text/plain"],
      [isSpecialIssue |-> "false"],
      [isSpecialIssue |-> "true", title |-> "X"],
      [isSpecialIssue |-> Null] }

\* The file part of a multipart request.
NoFile == [mimetype |-> "none", ext |-> ""]

PdfFile == [mimetype |-> "application/pdf", ext |-> ".pdf"]

TxtFile == [mimetype |-> "text/plain", ext |-> ".txt"]

UploadFiles == {PdfFile, TxtFile}

\* !x of a request field: undefined or the empty text.
Falsy(b, f) == f \notin DOMAIN b \/ b[f] = ""

\* The history kept of a request: the operation, the status answered, the
\* ObjectId of the record it reached, the step that threw, the content type of
\* the file part sent, and the fields the body of a create or update named.
NoRequest == [op |-> "none", status |-> 0, oid |-> 0, threw |-> "none",
              file |-> "none", keys |-> {}]

Response(op, status, oid, threw, file, keys) ==
    [op |-> op, status |-> status, oid |-> oid, threw |-> threw,
     file |-> file.mimetype, keys |-> keys]

\* The history of an update also keeps the fields its data gave the empty text.
Emptied(r, data) ==
    [k \in (DOMAIN r) \cup {"empty"} |->
        IF k = "empty" THEN {f \in DOMAIN data : data[f] = ""} ELSE r[k]]

\* ------------------------------------------------------- the upload (multer)

\* A filter that lets every file through.
fileFilterAny(file) == TRUE

\* upload.fileFilter: only application/pdf is accepted.
fileFilter(file) == file.mimetype = "application/pdf"

\* storage.filename: Date.now() + path.extname(file.originalname).
filename(t, file) == <<t, file.ext>>

\* storage.destination and req.file.path: variant A stores under the absolute
\* uploadsDir, variant I under the relative directory "uploads".  dir is the
\* directory the path leads to.
filePath(v, name) == [abs |-> v = "A", dir |-> "uploads", name |-> name]

\* An upload that stores nothing before the handler runs.
uploadSingleLater(files, file, t) == files

\* The uploads directory after upload.single("pdf") has run on a request:
\* an accepted file is written under its name, a rejected or absent one is not.
uploadSingle(files, file, t) ==
    IF file # NoFile /\ fileFilter(file)
    THEN files \cup {filename(t, file)}
    ELSE files

\* fs.existsSync(path): the uploads directory is the only one with files in it.
existsSync(files, path) == path.dir = "uploads" /\ path.name \in files

\* The path a text names: "uploads/0.pdf" is the file of that name in the
\* uploads directory, any other text here is a file name in the directory the
\* server was started in.
PathTable ==
    {<<"uploads/0.pdf", [abs |-> FALSE, dir |-> "uploads", name |-> <<0, ".pdf">>]>>}

PathOf(s) ==
    IF \E p \in PathTable : p[1] = s
    THEN (CHOOSE p \in PathTable : p[1] = s)[2]
    ELSE [abs |-> FALSE, dir |-> ".", name |-> <<0, s>>]

\* ------------------------------------------------- the schema and its casts

\* publicationSchema: every path is required.
SchemaRequired == Fields

\* The paths of the schema: the fields and the two paths of the artifact.
SchemaPaths == Fields \cup {"pdf", "pdfContentType"}

\* A check that does not ask for doi.
HandlerRequiredNoDoi(v) ==
    {"year", "volume", "issue", "title", "content", "author"}

\* The handler's own check of the request: variant A also demands doi.
HandlerRequired(v) ==
    IF v = "A"
    THEN {"year", "volume", "issue", "title", "content", "author", "doi"}
    ELSE {"year", "volume", "issue", "title", "content", "author"}

\* The fields new Publication({...}) is given, as texts.  Variant A computes
\* isSpecialIssue === "true"; variant I passes the request's value, or false.
newPublication(v, body) ==
    LET keys == IF v = "A" THEN Fields ELSE Fields \ {"doi"}
        given == Restrict(body, keys \ {"isSpecialIssue"})
        special == IF v = "A"
                   THEN BoolText(~Falsy(body, "isSpecialIssue")
                                 /\ body["isSpecialIssue"] = "true")
                   ELSE IF "isSpecialIssue" \in DOMAIN body
                        THEN body["isSpecialIssue"]
                        ELSE "false"
    IN  [f \in (DOMAIN given) \cup {"isSpecialIssue"} |->
            IF f = "isSpecialIssue" THEN special ELSE given[f]]

\* Mongoose's validation of a new document: required paths and Number casts.
validate(doc) ==
    /\ \A f \in SchemaRequired : f \in DOMAIN doc /\ doc[f] # ""
    /\ \A f \in NumberFields \cap DOMAIN doc : Number(doc[f]) # NaN

\* The cast of one path to its schema type.
CastField(f, v) ==
    IF f \in NumberFields THEN Number(v)
    ELSE IF f = "isSpecialIssue" THEN CastBoolean(v)
    ELSE IF f = "pdf" THEN PathOf(v)
    ELSE v

\* The stored document of a validated new publication.
save(doc, path, mimetype) ==
    [f \in Fields \cup {"pdf", "pdfContentType"} |->
        IF f = "pdf" THEN path
        ELSE IF f = "pdfContentType" THEN mimetype
        ELSE CastField(f, doc[f])]

\* A generator that hands out the same ObjectId again.
newObjectIdFixed(n) == 1

\* The next ObjectId.
newObjectId(n) == n

\* express.json(): a multipart request is not parsed, its body is empty.
reqBody(body, file) == IF file # NoFile THEN EmptyBody ELSE body

\* The cast of an update: a Number path must be given a number.
updateCastOk(data) ==
    \A f \in NumberFields \cap DOMAIN data : Number(data[f]) # NaN

\* runValidators: a required path may not be set to the empty text.
updateValidatorsOk(data) ==
    \A f \in SchemaPaths \cap DOMAIN data : data[f] \notin {"", Null}

\* A replacement of the whole document: the paths the body does not name are
\* emptied.
findOneAndReplace(rec, data) ==
    [f \in DOMAIN rec |->
        IF f \in Fields \cap DOMAIN data THEN CastField(f, data[f])
        ELSE IF f \in Fields THEN CastField(f, "")
        ELSE rec[f]]

\* An update that skips the paths given the empty text.
findByIdAndUpdateTruthy(rec, data) ==
    [f \in DOMAIN rec |->
        IF f \in Fields \cap DOMAIN data /\ data[f] # ""
        THEN CastField(f, data[f]) ELSE rec[f]]

\* findByIdAndUpdate(id, updatedData): $set of the paths the body names.  The
\* cast lets null through; a path set to null holds no value afterwards and
\* is out of the document's domain.
findByIdAndUpdate(rec, data) ==
    LET set == SchemaPaths \cap DOMAIN data
        nulled == {f \in set : data[f] = Null}
    IN  [f \in ((DOMAIN rec) \cup set) \ nulled |->
            IF f \in set THEN CastField(f, data[f]) ELSE rec[f]]

\* findByIdAndDelete: the collection without the document.
findByIdAndDelete(recs, oid) == [o \in (DOMAIN recs) \ {oid} |-> recs[o]]

\* --------------------------------------------------------------- the sidecar

\* The XML a record is projected to: one element per field, in this order.
\* String(rec.isSpecialIssue) of a document that holds null there is "null".
xmlOfRecord(rec, oid, doiText) ==
    << <<"title", rec.title>>,
       <<"author", rec.author>>,
       <<"volume", rec.volume>>,
       <<"issue", NumText(rec.issue)>>,
       <<"year", NumText(rec.year)>>,
       <<"doi", doiText>>,
       <<"isSpecialIssue", IF "isSpecialIssue" \in DOMAIN rec
                           THEN BoolText(rec.isSpecialIssue) ELSE "null">>,
       <<"content", rec.content>>,
       <<"id", toString(oid)>> >>

\* Variant A, create: txt(savedPublication.doi).
xmlOfSaved(rec, oid) == xmlOfRecord(rec, oid, rec.doi)

\* A projection that leaves the doi element out when there is no doi.
xmlOfResultOmitsDoi(rec, oid) ==
    IF rec.doi = ""
    THEN SelectSeq(xmlOfRecord(rec, oid, ""), LAMBDA e : e[1] # "doi")
    ELSE xmlOfRecord(rec, oid, rec.doi)

\* Variant A, update: txt(result.doi || "").
xmlOfResult(rec, oid) ==
    xmlOfRecord(rec, oid, IF rec.doi = "" THEN "" ELSE rec.doi)

\* Variant I, create: the request's own texts, and no doi element.
xmlOfRequest(body, oid) ==
    << <<"title", body["title"]>>,
       <<"author", body["author"]>>,
       <<"volume", body["volume"]>>,
       <<"issue", body["issue"]>>,
       <<"year", body["year"]>>,
       <<"isSpecialIssue", IF "isSpecialIssue" \in DOMAIN body
                           THEN body["isSpecialIssue"] ELSE "undefined">>,
       <<"content", body["content"]>>,
       <<"id", toString(oid)>> >>

\* path.join(uploadsDir, `publication-${id}.xml`): the file is named by the
\* id text it is given.
xmlFilePath(id) == id

\* fs.writeFileSync(xmlFilePath, xml)
writeFileSync(files, name, xml) ==
    [n \in (DOMAIN files) \cup {name} |-> IF n = name THEN xml ELSE files[n]]

\* fs.unlinkSync(xmlFilePath)
unlinkSync(files, name) == [n \in (DOMAIN files) \ {name} |-> files[n]]

\* ------------------------------------------------------------- initial state

\* The store an earlier run may have left: one publication, its PDF and its
\* sidecar.
SeedOid == newObjectId(1)

SeedName == <<0, ".pdf">>

SeedRecord(v) == save(newPublication("A", bFull1), filePath(v, SeedName),
                      "application/pdf")

Init ==
    /\ variant \in Variants
    /\ clock = 1
    /\ last = NoRequest
    /\ faults = 0
    /\ pending = EmptyBag
    /\ \/ /\ records = [o \in {} |-> 0]
          /\ pdfFiles = {}
          /\ xmlFiles = [n \in {} |-> 0]
          /\ nextOid = 1
          /\ created = {}
       \/ /\ records = [o \in {SeedOid} |-> SeedRecord(variant)]
          /\ pdfFiles = {SeedName}
          /\ xmlFiles = [n \in {toString(SeedOid)} |->
                            xmlOfSaved(SeedRecord(variant), SeedOid)]
          /\ nextOid = SeedOid + 1
          /\ created = {SeedOid}

\* ------------------------------------------------------------------- actions

\* Time passes.
Tick ==
    /\ clock < MaxClock
    /\ clock' = clock + 1
    /\ UNCHANGED <<pending, variant, records, pdfFiles, xmlFiles, nextOid, created,
                   faults, last>>

\* POST /publications, after upload.single("pdf").  saveOk and xmlOk are the
\* outcomes of the database write and of fs.writeFileSync.
Create(body, file, saveOk, xmlOk) ==
    LET name == filename(clock, file)
        path == filePath(variant, name)
        doc  == newPublication(variant, body)
        oid  == newObjectId(nextOid)
        rec  == save(doc, path, file.mimetype)
        xml  == IF variant = "A" THEN xmlOfSaved(rec, oid)
                ELSE xmlOfRequest(body, oid)
        R(status, o, threw) ==
            Response("create", status, o, threw, file, DOMAIN body)
    IN
    /\ nextOid <= MaxOid
    /\ (saveOk /\ xmlOk) \/ faults < MaxFaults
    /\ UNCHANGED <<pending, variant, clock>>
    /\ IF file # NoFile /\ ~fileFilter(file)
       THEN \* multer passes the filter's error on: the handler never runs
            /\ last' = R(500, 0, "fileFilter")
            /\ UNCHANGED <<records, pdfFiles, xmlFiles, nextOid, created>>
       ELSE
       /\ pdfFiles' = uploadSingle(pdfFiles, file, clock)
       /\ IF (\E f \in HandlerRequired(variant) : Falsy(body, f)) \/ file = NoFile
          THEN /\ last' = R(400, 0, "none")
               /\ UNCHANGED <<records, xmlFiles, nextOid, created>>
          ELSE IF ~validate(doc) \/ ~saveOk
          THEN /\ last' = R(500, 0, "save")
               /\ UNCHANGED <<records, xmlFiles, nextOid, created>>
          ELSE /\ records' = [o \in (DOMAIN records) \cup {oid} |->
                                 IF o = oid THEN rec ELSE records[o]]
               /\ nextOid' = nextOid + 1
               /\ created' = created \cup {oid}
               /\ IF xmlOk
                  THEN /\ xmlFiles' = writeFileSync(xmlFiles,
                                          xmlFilePath(toString(oid)), xml)
                       /\ last' = R(201, oid, "none")
                  ELSE /\ xmlFiles' = xmlFiles
                       /\ last' = R(500, oid, "writeXml")
    /\ faults' = IF (last'.threw = "save" /\ ~saveOk) \/ last'.threw = "writeXml"
                 THEN faults + 1 ELSE faults

\* GET /publications/:id
getPublication(recs, id) ==
    IF ~isValid(id) THEN 400
    ELSE IF CastObjectId(id) \notin DOMAIN recs THEN 404
    ELSE 200

Get(id) ==
    /\ last' = Response("get", getPublication(records, id),
                        IF getPublication(records, id) = 200
                        THEN CastObjectId(id) ELSE 0,
                        "none", NoFile, {})
    /\ UNCHANGED <<pending, variant, records, pdfFiles, xmlFiles, clock, nextOid, created,
                   faults>>

\* The route with upload.single("pdf") in front of it.
putUploadSingle(files, file, t) == uploadSingle(files, file, t)

\* The uploads directory after a PUT: the route has no upload middleware, a
\* file sent with the request is not stored.
putUpload(files, file, t) == files

\* PUT /publications/:id.  xmlOk is the outcome of fs.writeFileSync.
Update(id, body, file, xmlOk) ==
    LET data == reqBody(body, file)
        oid  == CastObjectId(id)
        R(status, o, threw) ==
            Emptied(Response("update", status, o, threw, file, DOMAIN body),
                    data)
    IN
    /\ xmlOk \/ faults < MaxFaults
    /\ UNCHANGED <<pending, variant, clock, nextOid, created>>
    /\ pdfFiles' = putUpload(pdfFiles, file, clock)
    /\ IF ~isValid(id)
       THEN \* variant I answers 400; in variant A the cast of the id throws
            /\ last' = IF variant = "I" THEN R(400, 0, "none")
                       ELSE R(500, 0, "cast")
            /\ UNCHANGED <<records, xmlFiles>>
       ELSE IF ~updateCastOk(data)
                 \/ (variant = "I" /\ ~updateValidatorsOk(data))
       THEN /\ last' = R(500, 0, "cast")
            /\ UNCHANGED <<records, xmlFiles>>
       ELSE IF oid \notin DOMAIN records
       THEN /\ last' = R(404, 0, "none")
            /\ UNCHANGED <<records, xmlFiles>>
       ELSE LET result == findByIdAndUpdate(records[oid], data) IN
            /\ records' = [records EXCEPT ![oid] = result]
            /\ IF variant = "I"
               THEN /\ xmlFiles' = xmlFiles
                    /\ last' = R(200, oid, "none")
               ELSE IF xmlOk
               THEN /\ xmlFiles' = writeFileSync(xmlFiles,
                                       xmlFilePath(toString(oid)),
                                       xmlOfResult(result, oid))
                    /\ last' = R(200, oid, "none")
               ELSE /\ xmlFiles' = xmlFiles
                    /\ last' = R(500, oid, "writeXml")
    /\ faults' = IF last'.threw = "writeXml" THEN faults + 1 ELSE faults

\* DELETE /publications/:id.  pdfOk and sidecarOk are the outcomes of the two
\* fs.unlinkSync calls of variant A.
Delete(id, pdfOk, sidecarOk) ==
    LET oid == CastObjectId(id)
        R(status, o, threw) ==
            Response("delete", status, o, threw, NoFile, {})
    IN
    /\ (pdfOk /\ sidecarOk) \/ faults < MaxFaults
    /\ UNCHANGED <<pending, variant, clock, nextOid, created>>
    /\ IF ~isValid(id)
       THEN /\ last' = R(500, 0, "cast")
            /\ UNCHANGED <<records, pdfFiles, xmlFiles>>
       ELSE IF oid \notin DOMAIN records
       THEN /\ last' = R(404, 0, "none")
            /\ UNCHANGED <<records, pdfFiles, xmlFiles>>
       ELSE LET deleted == records[oid] IN
            /\ records' = findByIdAndDelete(records, oid)
            /\ IF variant = "I"
               THEN /\ last' = R(200, oid, "none")
                    /\ UNCHANGED <<pdfFiles, xmlFiles>>
               ELSE IF existsSync(pdfFiles, deleted.pdf) /\ ~pdfOk
               THEN /\ last' = R(500, oid, "unlinkPdf")
                    /\ UNCHANGED <<pdfFiles, xmlFiles>>
               ELSE /\ pdfFiles' = IF existsSync(pdfFiles, deleted.pdf)
                                   THEN pdfFiles \ {deleted.pdf.name}
                                   ELSE pdfFiles
                    /\ IF xmlFilePath(id) \notin DOMAIN xmlFiles
                       THEN /\ xmlFiles' = xmlFiles
                            /\ last' = R(200, oid, "none")
                       ELSE IF sidecarOk
                       THEN /\ xmlFiles' = unlinkSync(xmlFiles, xmlFilePath(id))
                            /\ last' = R(200, oid, "none")
                       ELSE /\ xmlFiles' = xmlFiles
                            /\ last' = R(500, oid, "unlinkXml")
    /\ faults' = IF last'.threw \in {"unlinkPdf", "unlinkXml"}
                 THEN faults + 1 ELSE faults

\* ----------------------------------------------------------- the PDF routes

\* The answer of a PDF route: the body sent and its Content-Type header.
JsonBody == [kind |-> "json"]

\* The bytes of the uploaded file of that name.
FileBody(name) == [kind |-> "file", name |-> name]

\* The text of the stored path itself.
TextBody(path) == [kind |-> "text", path |-> path]

StreamResponse(op, status, oid, threw, body, ctype) ==
    [op |-> op, status |-> status, oid |-> oid, threw |-> threw,
     file |-> "none", keys |-> {}, body |-> body, ctype |-> ctype]

\* path.join(__dirname, publication.pdf): the stored path is appended to the
\* server's directory.  A relative "uploads/<name>" lands on the uploaded
\* file (the server is started in its own directory); an absolute path lands
\* below __dirname once more, where no file is.
pathJoin(path) ==
    [abs |-> TRUE,
     dir |-> IF path.abs THEN "__dirname/__dirname/uploads" ELSE path.dir,
     name |-> path.name]

\* GET /download-pdf/:id
Download(id) ==
    LET oid == CastObjectId(id)
        R(status, o, threw, body, ctype) ==
            StreamResponse("download", status, o, threw, body, ctype)
    IN
    /\ UNCHANGED <<pending, variant, records, pdfFiles, xmlFiles, clock, nextOid,
                   created, faults>>
    /\ last' =
         IF ~isValid(id)
         THEN \* variant A answers 400; in variant I the cast of the id throws
              IF variant = "A" THEN R(400, 0, "none", JsonBody, "none")
              ELSE R(500, 0, "cast", JsonBody, "none")
         ELSE IF oid \notin DOMAIN records
         THEN R(404, 0, "none", JsonBody, "none")
         ELSE IF variant = "I"
         THEN \* res.send(publication.pdf): the path text is the body
              R(200, oid, "none", TextBody(records[oid].pdf),
                records[oid].pdfContentType)
         ELSE IF ~existsSync(pdfFiles, pathJoin(records[oid].pdf))
         THEN R(404, oid, "none", JsonBody, "none")
         ELSE R(200, oid, "none", FileBody(pathJoin(records[oid].pdf).name),
                records[oid].pdfContentType)

\* GET /view-pdf/:id
View(id) ==
    LET oid == CastObjectId(id)
        R(status, o, threw, body, ctype) ==
            StreamResponse("view", status, o, threw, body, ctype)
    IN
    /\ UNCHANGED <<pending, variant, records, pdfFiles, xmlFiles, clock, nextOid,
                   created, faults>>
    /\ last' =
         IF ~isValid(id)
         THEN R(400, 0, "none", JsonBody, "none")
         ELSE IF oid \notin DOMAIN records
         THEN R(404, 0, "none", JsonBody, "none")
         ELSE IF ~existsSync(pdfFiles, pathJoin(records[oid].pdf))
         THEN R(404, oid, "none", JsonBody, "none")
         ELSE IF variant = "A"
         THEN \* Buffer.from(publication.pdf.buffer): pdf is a String, its
              \* buffer is undefined, Buffer.from throws
              R(500, oid, "buffer", JsonBody, "none")
         ELSE R(200, oid, "none", FileBody(pathJoin(records[oid].pdf).name),
                records[oid].pdfContentType)

\* --------------------------------------------------------------- the queries

\* The answer of a query route: the query string it was sent and the JSON
\* array it answered with.
QueryResponse(op, status, params, result) ==
    [op |-> op, status |-> status, oid |-> 0, threw |-> "none",
     file |-> "none", keys |-> {}, params |-> params, result |-> result]

NoResult == [o \in {} |-> 0]

\* The query strings sent to GET /publications.
ListQueries ==
    { EmptyBody,
      [year |-> "2021"],
      [volume |-> "B"],
      [issue |-> "2"],
      [doi |-> "d1"],
      [isSpecialIssue |-> "true"],
      [isSpecialIssue |-> "false"],
      [isSpecialIssue |-> "true", year |-> "2022"],
      Restrict(bFull1, {"year", "volume", "issue", "doi", "isSpecialIssue"}),
      [year |-> "abc"] }

\* The query strings sent to GET /special-issues.
SpecialQueries ==
    { EmptyBody,
      [year |-> "2022"],
      [isSpecialIssue |-> "false"],
      [isSpecialIssue |-> "false", volume |-> "A", issue |-> "1"],
      [issue |-> "abc"] }

\* The query strings sent to GET /volumes.
VolumesQueries ==
    { EmptyBody, [year |-> "2021"], [year |-> "2022"], [year |-> "abc"] }

\* The distinct values over the special issues only.
distinctOfSpecial(recs, f) ==
    {recs[o][f] : o \in {x \in DOMAIN recs : recs[x].isSpecialIssue}}

\* Model.distinct(field): the set of the values the documents carry.
distinct(recs, f) == {recs[o][f] : o \in DOMAIN recs}

\* Model.find(query): the documents that equal the query on each of its paths.
find(recs, q) ==
    [o \in {x \in DOMAIN recs : \A f \in DOMAIN q : recs[x][f] = q[f]} |->
        recs[o]]

\* The cast of a query: NaN is no Number.
queryCastOk(q) == \A f \in NumberFields \cap DOMAIN q : q[f] # NaN

\* The value a query path is given from the query string.
queryValue(f, text) ==
    IF f \in NumberFields THEN Number(text)
    ELSE IF f = "isSpecialIssue" THEN text = "true"
    ELSE text

\* The paths GET /publications reads from the query string: variant I does
\* not read doi.
listPaths(v) ==
    IF v = "A" THEN {"year", "volume", "issue", "doi"}
    ELSE {"year", "volume", "issue"}

\* A query that does not read doi.
listQueryNoDoi(v, params) ==
    LET keys == {f \in {"year", "volume", "issue"} : ~Falsy(params, f)}
                  \cup ({"isSpecialIssue"} \cap DOMAIN params)
    IN  [f \in keys |-> queryValue(f, params[f])]

\* GET /publications: if (year) query.year = Number(year) ... and
\* if (isSpecialIssue !== undefined) query.isSpecialIssue = ... === "true".
listQuery(v, params) ==
    LET keys == {f \in listPaths(v) : ~Falsy(params, f)}
                  \cup ({"isSpecialIssue"} \cap DOMAIN params)
    IN  [f \in keys |-> queryValue(f, params[f])]

\* A query that takes isSpecialIssue from the caller when the caller sends it.
specialIssuesQueryOfCaller(params) ==
    LET keys == {f \in {"year", "volume", "issue"} : ~Falsy(params, f)}
    IN  [f \in keys \cup {"isSpecialIssue"} |->
            IF f = "isSpecialIssue"
            THEN ("isSpecialIssue" \notin DOMAIN params
                    \/ params["isSpecialIssue"] = "true")
            ELSE queryValue(f, params[f])]

\* GET /special-issues: query = { isSpecialIssue: true }, then year, volume
\* and issue as above.
specialIssuesQuery(params) ==
    LET keys == {f \in {"year", "volume", "issue"} : ~Falsy(params, f)}
    IN  [f \in keys \cup {"isSpecialIssue"} |->
            IF f = "isSpecialIssue" THEN TRUE ELSE queryValue(f, params[f])]

\* A query over every year.
volumesQueryAll(params) == [f \in {} |-> 0]

\* GET /volumes: find({ year: Number(year) })
volumesQuery(params) == [f \in {"year"} |-> Number(params[f])]

\* The answer of a route that runs find(query): a query that cannot be cast
\* throws and is answered 500.
findResponse(op, recs, params, q) ==
    IF queryCastOk(q)
    THEN QueryResponse(op, 200, params, find(recs, q))
    ELSE QueryResponse(op, 500, params, NoResult)

\* GET /years
Years ==
    /\ last' = QueryResponse("years", 200, EmptyBody, distinct(records, "year"))
    /\ UNCHANGED <<pending, variant, records, pdfFiles, xmlFiles, clock, nextOid,
                   created, faults>>

\* GET /volumes
Volumes(params) ==
    /\ last' =
         IF Falsy(params, "year")
         THEN QueryResponse("volumes", 400, params, {})
         ELSE IF ~queryCastOk(volumesQuery(params))
         THEN QueryResponse("volumes", 500, params, {})
         ELSE QueryResponse("volumes", 200, params,
                  distinct(find(records, volumesQuery(params)), "volume"))
    /\ UNCHANGED <<pending, variant, records, pdfFiles, xmlFiles, clock, nextOid,
                   created, faults>>

\* GET /publications
List(params) ==
    /\ last' = findResponse("list", records, params, listQuery(variant, params))
    /\ UNCHANGED <<pending, variant, records, pdfFiles, xmlFiles, clock, nextOid,
                   created, faults>>

\* GET /special-issues
SpecialIssues(params) ==
    /\ last' = findResponse("special", records, params,
                            specialIssuesQuery(params))
    /\ UNCHANGED <<pending, variant, records, pdfFiles, xmlFiles, clock, nextOid,
                   created, faults>>

\* ------------------------------------------------------------ the proxy server
\* The third server (src/index.js, lines 322-516) keeps no store: it forwards
\* each request to a remote instance of the service and answers from the
\* remote's answer.  The remote instance is the file-backed server above.

forwarded(params) ==
    [f \in (DOMAIN params) \cup {"isSpecialIssue"} |->
        IF f = "isSpecialIssue" THEN "true" ELSE params[f]]

\* GET /special-issues of the proxy: the remote's GET /publications answers the
\* forwarded query; an answer that is not 2xx makes axios throw.
ProxySpecialIssues(params) ==
    LET remote == findResponse("list", records, forwarded(params),
                               listQuery(variant, forwarded(params)))
    IN
    /\ last' = QueryResponse("proxySpecial",
                             IF remote.status = 200 THEN 200 ELSE 500,
                             params, remote.result)
    /\ UNCHANGED <<pending, variant, records, pdfFiles, xmlFiles, clock, nextOid,
                   created, faults>>

\* DELETE /publications/:id of the proxy, after await axios.delete(...): a 2xx
\* answer of the remote is answered 200, any other makes axios throw and the
\* catch answers 500.
proxyDelete(remote) ==
    [op |-> "proxyDelete",
     status |-> IF remote.status = 200 THEN 200 ELSE 500,
     oid |-> remote.oid, threw |-> "none", file |-> "none", keys |-> {},
     remote |-> remote.status]

\* The proxy answers its caller once the remote has answered the DELETE it
\* forwarded: last holds the remote's answer.
ProxyDeleteReply ==
    /\ last.op = "delete"
    /\ last' = proxyDelete(last)
    /\ UNCHANGED <<pending, variant, records, pdfFiles, xmlFiles, clock, nextOid,
                   created, faults>>

Next ==
    \/ Tick
    \/ \E body \in CreateBodies, file \in UploadFiles \cup {NoFile},
          saveOk \in BOOLEAN, xmlOk \in BOOLEAN :
            Create(body, file, saveOk, xmlOk)
    \/ \E id \in ReqIds : Get(id)
    \/ \E id \in ReqIds, body \in UpdateBodies, file \in {NoFile, PdfFile},
          xmlOk \in BOOLEAN :
            Update(id, body, file, xmlOk)
    \/ \E id \in ReqIds, pdfOk \in BOOLEAN, sidecarOk \in BOOLEAN :
            Delete(id, pdfOk, sidecarOk)

Spec == Init /\ [][Next]_vars

\* The service with its read routes and the proxy in front of it.  No I/O call
\* fails here, the ids are spelled as the service writes them and the
\* requests arrive within one tick of the clock: none of these plays a part in
\* what the read routes answer.
ServiceNext ==
    \/ \E body \in CreateBodies : Create(body, PdfFile, TRUE, TRUE)
    \/ \E id \in PlainIds : Get(id)
    \/ \E id \in PlainIds, body \in UpdateBodies : Update(id, body, NoFile, TRUE)
    \/ \E id \in PlainIds : Delete(id, TRUE, TRUE)
    \/ \E id \in PlainIds : Download(id)
    \/ \E id \in PlainIds : View(id)
    \/ Years
    \/ \E params \in VolumesQueries : Volumes(params)
    \/ \E params \in ListQueries : List(params)
    \/ \E params \in SpecialQueries : SpecialIssues(params)
    \/ \E params \in SpecialQueries : ProxySpecialIssues(params)
    \/ ProxyDeleteReply

ServiceSpec == Init /\ [][ServiceNext]_vars

\* The service sent updates that clear a field.  No I/O call fails here, the
\* ids are spelled as the service writes them and the requests arrive within
\* one tick of the clock.
ClearingNext ==
    \/ \E body \in CreateBodies : Create(body, PdfFile, TRUE, TRUE)
    \/ \E id \in PlainIds, body \in {[title |-> "X"]} \cup ClearingBodies :
            Update(id, body, NoFile, TRUE)
    \/ \E id \in PlainIds : Delete(id, TRUE, TRUE)

ClearingSpec == Init /\ [][ClearingNext]_vars

\* The service sent updates whose bodies name the paths of the artifact or
\* isSpecialIssue.  No I/O call fails here, the ids are spelled as the service
\* writes them and the requests arrive within one tick of the clock.
ReferenceNext ==
    \/ \E body \in CreateBodies : Create(body, PdfFile, TRUE, TRUE)
    \/ \E id \in PlainIds, body \in ReferenceBodies :
            Update(id, body, NoFile, TRUE)
    \/ \E id \in PlainIds : Delete(id, TRUE, TRUE)

ReferenceSpec == Init /\ [][ReferenceNext]_vars

\* ------------------------------------------------- the handlers step by step
\* A handler is an async function: it runs to its await, the database does
\* what it was asked, and the handler goes on from the answer when the event
\* loop gets to it.  Between these steps the steps of other requests run.
\* The fs calls are synchronous: they run within the step they are in.
\* pending is the bag of the handlers on their way; any of them may be the
\* next to go on.

\* The database answered null.
NoDoc == <<>>

\* A handler on its way: the operation, the step it waits for, the id text of
\* its request (of a create: of the document, once it is inserted), and the
\* document it holds: of a create the new Publication if it is valid, of an
\* update what the database answered, of a delete the same, of which the
\* handler reads pdf only.
InFlight(op, at, id, doc) == [op |-> op, at |-> at, id |-> id, doc |-> doc]

InFlightCount == BagCardinality(pending)

Begun(e) == pending (+) SetToBag({e})

Ended(e) == pending (-) SetToBag({e})

\* The creates that will still ask for an ObjectId.
Unsaved == BagCardinality([e \in {x \in BagToSet(pending) : x.at = "save"} |->
                              pending[e]])

\* The history of a request answered by such a handler: the operation, the
\* status, the ObjectId of the record it reached, the step that threw, and the
\* pdf of the document the answer carried.
StepResponse(op, status, oid, threw, doc) ==
    [op |-> op, status |-> status, oid |-> oid, threw |-> threw,
     pdf |-> IF doc = NoDoc THEN NoDoc ELSE <<doc[1].pdf>>]

\* The bodies sent to the handlers here.
StepCreateBodies == {bFull1, Restrict(bFull1, Fields \ {"title"})}

StepUpdateBodies == {[title |-> "X"], [title |-> "T"]}

\* The ids sent to the handlers here: those of the records there may be.
StepIds == {id \in PlainIds : isValid(id)}

\* POST /publications, first step: upload.single("pdf") stores the file, then
\* the handler runs up to await newPublication.save().
CreateUpload(body, file) ==
    LET name == filename(clock, file)
        doc  == IF validate(newPublication(variant, body))
                THEN <<save(newPublication(variant, body),
                            filePath(variant, name), file.mimetype)>>
                ELSE NoDoc
        R(status, threw) == StepResponse("create", status, 0, threw, NoDoc)
    IN
    /\ InFlightCount < MaxInFlight
    /\ nextOid + Unsaved <= MaxOid
    /\ UNCHANGED <<variant, records, xmlFiles, clock, nextOid, created, faults>>
    /\ IF file # NoFile /\ ~fileFilter(file)
       THEN /\ last' = R(500, "fileFilter")
            /\ UNCHANGED <<pdfFiles, pending>>
       ELSE
       /\ pdfFiles' = uploadSingle(pdfFiles, file, clock)
       /\ IF (\E f \in HandlerRequired(variant) : Falsy(body, f)) \/ file = NoFile
          THEN /\ last' = R(400, "none")
               /\ UNCHANGED pending
          ELSE /\ pending' = Begun(InFlight("create", "save", BadId, doc))
               /\ UNCHANGED last

\* POST /publications, second step: save() validates and inserts the document.
CreateSave(p) ==
    LET oid == newObjectId(nextOid) IN
    /\ p.op = "create" /\ p.at = "save"
    /\ UNCHANGED <<variant, pdfFiles, xmlFiles, clock, faults>>
    /\ IF p.doc = NoDoc
       THEN /\ last' = StepResponse("create", 500, 0, "save", NoDoc)
            /\ pending' = Ended(p)
            /\ UNCHANGED <<records, nextOid, created>>
       ELSE /\ records' = [o \in (DOMAIN records) \cup {oid} |->
                              IF o = oid THEN p.doc[1] ELSE records[o]]
            /\ nextOid' = nextOid + 1
            /\ created' = created \cup {oid}
            /\ pending' = Ended(p) (+)
                            SetToBag({InFlight("create", "xml", toString(oid),
                                               p.doc)})
            /\ UNCHANGED last

\* POST /publications, last step (variant A): the sidecar is written from
\* savedPublication and 201 is answered.  Variant I does not get here: its
\* new Publication has no doi and is never valid.
CreateResume(p) ==
    LET oid == CastObjectId(p.id) IN
    /\ p.op = "create" /\ p.at = "xml"
    /\ UNCHANGED <<variant, records, pdfFiles, clock, nextOid, created, faults>>
    /\ xmlFiles' = writeFileSync(xmlFiles, xmlFilePath(p.id),
                                 xmlOfSaved(p.doc[1], oid))
    /\ last' = StepResponse("create", 201, oid, "none", p.doc)
    /\ pending' = Ended(p)

\* PUT /publications/:id, first step: up to the database's findByIdAndUpdate.
UpdateAwait(id, body) ==
    LET oid == CastObjectId(id)
        R(status, threw) == StepResponse("update", status, 0, threw, NoDoc)
    IN
    /\ InFlightCount < MaxInFlight
    /\ UNCHANGED <<variant, pdfFiles, xmlFiles, clock, nextOid, created, faults>>
    /\ IF ~isValid(id)
       THEN /\ last' = IF variant = "I" THEN R(400, "none") ELSE R(500, "cast")
            /\ UNCHANGED <<records, pending>>
       ELSE IF ~updateCastOk(body)
                 \/ (variant = "I" /\ ~updateValidatorsOk(body))
       THEN /\ last' = R(500, "cast")
            /\ UNCHANGED <<records, pending>>
       ELSE IF oid \notin DOMAIN records
       THEN /\ pending' = Begun(InFlight("update", "result", id, NoDoc))
            /\ UNCHANGED <<records, last>>
       ELSE LET result == findByIdAndUpdate(records[oid], body) IN
            /\ records' = [records EXCEPT ![oid] = result]
            /\ pending' = Begun(InFlight("update", "result", id, <<result>>))
            /\ UNCHANGED last

\* PUT /publications/:id, last step: 404 for null; else variant A writes the
\* sidecar from result, and 200 is answered.
UpdateResume(p) ==
    LET oid == CastObjectId(p.id)
        R(status, o) == StepResponse("update", status, o, "none", p.doc)
    IN
    /\ p.op = "update"
    /\ UNCHANGED <<variant, records, pdfFiles, clock, nextOid, created, faults>>
    /\ pending' = Ended(p)
    /\ IF p.doc = NoDoc
       THEN /\ last' = R(404, 0)
            /\ UNCHANGED xmlFiles
       ELSE /\ last' = R(200, oid)
            /\ xmlFiles' = IF variant = "I" THEN xmlFiles
                           ELSE writeFileSync(xmlFiles,
                                    xmlFilePath(toString(oid)),
                                    xmlOfResult(p.doc[1], oid))

\* DELETE /publications/:id, first step: up to the database's
\* findByIdAndDelete.
DeleteAwait(id) ==
    LET oid == CastObjectId(id) IN
    /\ InFlightCount < MaxInFlight
    /\ UNCHANGED <<variant, pdfFiles, xmlFiles, clock, nextOid, created, faults>>
    /\ IF ~isValid(id)
       THEN /\ last' = StepResponse("delete", 500, 0, "cast", NoDoc)
            /\ UNCHANGED <<records, pending>>
       ELSE IF oid \notin DOMAIN records
       THEN /\ pending' = Begun(InFlight("delete", "result", id, NoDoc))
            /\ UNCHANGED <<records, last>>
       ELSE /\ records' = findByIdAndDelete(records, oid)
            /\ pending' = Begun(InFlight("delete", "result", id,
                                         <<[pdf |-> records[oid].pdf]>>))
            /\ UNCHANGED last

\* The uploads directory after if (pdf && existsSync(pdf)) unlinkSync(pdf).
unlinkPdf(files, doc) ==
    IF existsSync(files, doc.pdf) THEN files \ {doc.pdf.name} ELSE files

\* The sidecars after if (existsSync(xmlFilePath)) unlinkSync(xmlFilePath).
unlinkSidecar(files, id) ==
    IF xmlFilePath(id) \in DOMAIN files
    THEN unlinkSync(files, xmlFilePath(id)) ELSE files

\* DELETE /publications/:id, last step: 404 for null; else variant A removes
\* the PDF file and the sidecar, and 200 is answered.
DeleteResume(p) ==
    LET oid == CastObjectId(p.id)
        R(status, o) == StepResponse("delete", status, o, "none", p.doc)
    IN
    /\ p.op = "delete"
    /\ UNCHANGED <<variant, records, clock, nextOid, created, faults>>
    /\ pending' = Ended(p)
    /\ IF p.doc = NoDoc
       THEN /\ last' = R(404, 0)
            /\ UNCHANGED <<pdfFiles, xmlFiles>>
       ELSE /\ last' = R(200, oid)
            /\ IF variant = "I"
               THEN UNCHANGED <<pdfFiles, xmlFiles>>
               ELSE /\ pdfFiles' = unlinkPdf(pdfFiles, p.doc[1])
                    /\ xmlFiles' = unlinkSidecar(xmlFiles, p.id)

\* The handlers of concurrent requests, step by step.  No I/O call fails here,
\* the ids are ObjectIds spelled as the service writes them and the requests
\* arrive within one tick of the clock; at most MaxInFlight handlers are on
\* their way at a time.
StepNext ==
    \/ \E body \in StepCreateBodies : CreateUpload(body, PdfFile)
    \/ \E p \in BagToSet(pending) : CreateSave(p)
    \/ \E p \in BagToSet(pending) : CreateResume(p)
    \/ \E id \in StepIds, body \in StepUpdateBodies : UpdateAwait(id, body)
    \/ \E p \in BagToSet(pending) : UpdateResume(p)
    \/ \E id \in StepIds : DeleteAwait(id)
    \/ \E p \in BagToSet(pending) : DeleteResume(p)

StepSpec == Init /\ [][StepNext]_vars

\* -------------------------------------------------------------------- claims

\* A step that served a request of kind op (time does not pass in it).
Served(op) == clock' = clock /\ last'.op = op

Sidecar(oid) == xmlFilePath(toString(oid))

\* C1: a Create that succeeds returns a record whose id was given to no record
\* before it, and right after it get(id) finds the record and the record's
\* artifact reference names a file present in the uploads directory.
C1_CreateFreshIdAndArtifact ==
    [][ (Served("create") /\ last'.status = 201) =>
          /\ last'.oid \notin created
          /\ getPublication(records', toString(last'.oid)) = 200
          /\ existsSync(pdfFiles', records'[last'.oid].pdf) ]_vars

C1_Witness ==
    /\ last.op = "create" /\ last.status = 201
    /\ Cardinality(created) >= 2
    /\ existsSync(pdfFiles, records[last.oid].pdf)

\* C2: a Create answered with the validation error (variant A) leaves the
\* records, the uploaded files and the sidecars as they were.
C2_InvalidCreateHasNoSideEffect ==
    [][ (variant = "A" /\ Served("create") /\ last'.status = 400) =>
          /\ records' = records
          /\ pdfFiles' = pdfFiles
          /\ xmlFiles' = xmlFiles ]_vars

\* C3: a Create whose file part is not application/pdf is rejected and writes
\* nothing: no record, no uploaded file, no sidecar.
C3_NonPdfRejectedBeforeAnyWrite ==
    [][ (Served("create") /\ last'.file \notin {"none", "application/pdf"}) =>
          /\ last'.status \notin {200, 201}
          /\ records' = records
          /\ pdfFiles' = pdfFiles
          /\ xmlFiles' = xmlFiles
          /\ created' = created ]_vars

C3_Witness ==
    /\ last.op = "create" /\ last.file = "text/plain"
    /\ last.threw = "fileFilter"
    /\ records # <<>>

\* C4: an Update that succeeds leaves every field its body does not name at
\* the value it had before.
C4_UpdateKeepsOtherFields ==
    [][ (Served("update") /\ last'.status = 200) =>
          \A f \in Fields \ last'.keys :
              records'[last'.oid][f] = records[last'.oid][f] ]_vars

C4_Witness ==
    /\ last.op = "update" /\ last.status = 200 /\ last.keys = {"title"}
    /\ last.file = "none"
    /\ records[last.oid].title = "X"
    /\ records[last.oid].year = 2021

\* C5: after a Delete that succeeds (variant A) the record, its PDF file and
\* its sidecar publication-<id>.xml are gone; a Delete answered NotFound
\* changes nothing.
C5_DeleteReclaimsArtifactAndSidecar ==
    [][ (variant = "A" /\ Served("delete")) =>
          /\ last'.status = 200 =>
                /\ last'.oid \notin DOMAIN records'
                /\ ~existsSync(pdfFiles', records[last'.oid].pdf)
                /\ Sidecar(last'.oid) \notin DOMAIN xmlFiles'
          /\ last'.status = 404 =>
                /\ records' = records
                /\ pdfFiles' = pdfFiles
                /\ xmlFiles' = xmlFiles ]_vars

C7_UpdateReprojectsSidecar ==
    (last.op = "update" /\ last.status = 200 /\ last.oid \in DOMAIN records) =>
        /\ Sidecar(last.oid) \in DOMAIN xmlFiles
        /\ xmlFiles[Sidecar(last.oid)]
              = xmlOfRecord(records[last.oid], last.oid, records[last.oid].doi)

\* C8: a Create (variant A) whose insert succeeded and whose sidecar write
\* failed reports success, and the record stays.
C8_SidecarFailureIsNotFatal ==
    (variant = "A" /\ last.op = "create" /\ last.threw = "writeXml") =>
        /\ last.status = 201
        /\ last.oid \in DOMAIN records

\* C9: a Create whose PDF was stored and whose insert failed adds no record
\* and leaves the uploaded file out of the uploads directory.
C9_FailedInsertReleasesArtifact ==
    [][ (Served("create") /\ last'.threw = "save") =>
          /\ records' = records
          /\ filename(clock, PdfFile) \notin pdfFiles' ]_vars

\* C10: a Delete (variant A) that removed the record and then failed to remove
\* the PDF file or the sidecar reports success, and a failure to remove the
\* PDF file does not keep the sidecar from being removed.
C10_CleanupFailureIsNotFatal ==
    (variant = "A" /\ last.op = "delete"
        /\ last.threw \in {"unlinkPdf", "unlinkXml"}) =>
        /\ last.status = 200
        /\ last.threw = "unlinkPdf" => Sidecar(last.oid) \notin DOMAIN xmlFiles

\* C11: a get, update, delete, download or view request sent a malformed id is
\* answered 400 (invalid identifier), and the records, the uploaded files and
\* the sidecars are as they were.
C11_MalformedIdIsClientFault ==
    [][ \A id \in ReqIds :
          (/\ ~isValid(id)
           /\ \/ Get(id)
              \/ \E body \in UpdateBodies : Update(id, body, NoFile, TRUE)
              \/ Delete(id, TRUE, TRUE)
              \/ Download(id)
              \/ View(id)) =>
              /\ last'.status = 400
              /\ records' = records
              /\ pdfFiles' = pdfFiles
              /\ xmlFiles' = xmlFiles ]_vars

\* The fields a Create must name besides doi.
WithoutDoi == {"year", "volume", "issue", "title", "content", "author"}

\* A step that served a Create naming every field but doi, with a PDF.
CreateWithoutDoi ==
    /\ Served("create")
    /\ last'.file = "application/pdf"
    /\ WithoutDoi \subseteq last'.keys /\ "doi" \notin last'.keys

NumericParams(params) ==
    \A f \in NumberFields \cap DOMAIN params : Number(params[f]) # NaN

\* The records that equal the query string on each of the given parameters it
\* carries: year and issue as numbers, isSpecialIssue as value-equals-"true".
Satisfying(recs, params, names) ==
    {o \in DOMAIN recs :
        /\ "year" \in names \cap DOMAIN params =>
              recs[o].year = Number(params["year"])
        /\ "volume" \in names \cap DOMAIN params =>
              recs[o].volume = params["volume"]
        /\ "issue" \in names \cap DOMAIN params =>
              recs[o].issue = Number(params["issue"])
        /\ "doi" \in names \cap DOMAIN params =>
              recs[o].doi = params["doi"]
        /\ "isSpecialIssue" \in names \cap DOMAIN params =>
              recs[o].isSpecialIssue = (params["isSpecialIssue"] = "true")}

\* C13: GET /publications (variant A), sent numbers for year and issue, answers
\* with exactly the records that equal the request on every one of year,
\* volume, issue, doi and isSpecialIssue it carries; with no parameter it
\* answers with all records.
C13_ListReturnsConjunction ==
    (variant = "A" /\ last.op = "list" /\ NumericParams(last.params)) =>
        /\ last.status = 200
        /\ last.result =
             [o \in Satisfying(records, last.params,
                      {"year", "volume", "issue", "doi", "isSpecialIssue"}) |->
                 records[o]]
        /\ last.params = EmptyBody => last.result = records

C13_Witness ==
    /\ variant = "A" /\ last.op = "list"
    /\ last.params = [isSpecialIssue |-> "true", year |-> "2022"]
    /\ DOMAIN last.result # {}
    /\ DOMAIN last.result # DOMAIN records

\* C14: GET /special-issues, of the service and of the proxy, sent numbers for
\* year and issue, answers with exactly the records whose isSpecialIssue is
\* true and that equal the request on year, volume and issue; the
\* isSpecialIssue the caller sends plays no part.
C14_SpecialIssuesForcesTrue ==
    (last.op \in {"special", "proxySpecial"} /\ NumericParams(last.params)) =>
        /\ last.status = 200
        /\ last.result =
             [o \in {x \in Satisfying(records, last.params,
                                      {"year", "volume", "issue"}) :
                        records[x].isSpecialIssue} |->
                 records[o]]

C14_Witness ==
    /\ last.op = "special"
    /\ last.params = [isSpecialIssue |-> "false"]
    /\ DOMAIN last.result # {}
    /\ \E o \in DOMAIN records : ~records[o].isSpecialIssue

\* C15: GET /years answers with exactly the set of the year values of the
\* records that exist, whatever creates, updates and deletes came before.
C15_YearsAreThoseOfExistingRecords ==
    last.op = "years" =>
        /\ last.status = 200
        /\ last.result = {records[o].year : o \in DOMAIN records}

C15_Witness ==
    /\ last.op = "years"
    /\ last.result = {2022}
    /\ Cardinality(created) = 2
    /\ Cardinality(DOMAIN records) = 1

\* C16: GET /volumes sent a year answers with exactly the set of the volume
\* values of the records of that year; sent no year it answers 400 and no
\* volumes.
C16_VolumesOfYear ==
    last.op = "volumes" =>
        IF "year" \notin DOMAIN last.params
        THEN last.status = 400 /\ last.result = {}
        ELSE NumericParams(last.params) =>
                /\ last.status = 200
                /\ last.result =
                     {records[o].volume :
                         o \in {x \in DOMAIN records :
                                  records[x].year = Number(last.params["year"])}}

C16_Witness ==
    /\ last.op = "volumes"
    /\ last.params = [year |-> "2022"]
    /\ last.result = {"B"}
    /\ \E o \in DOMAIN records : records[o].year = 2021

\* The elements of a sidecar.
HasElem(xml, tag) == \E i \in 1..Len(xml) : xml[i][1] = tag

ElemText(xml, tag) == xml[CHOOSE i \in 1..Len(xml) : xml[i][1] = tag][2]

\* C17: every sidecar a Create or an Update writes (one that is new or differs
\* from what was there) has a doi element, and the element's text is empty
\* when the record's doi is.
C17_SidecarHasDoiElement ==
    [][ (Served("create") \/ Served("update")) =>
          \A n \in DOMAIN xmlFiles' :
              (n \notin DOMAIN xmlFiles \/ xmlFiles'[n] # xmlFiles[n]) =>
                  /\ HasElem(xmlFiles'[n], "doi")
                  /\ ElemText(xmlFiles'[n], "doi") = records'[n.oid].doi ]_vars

C17_Witness ==
    /\ last.op = "update" /\ last.status = 200
    /\ last.keys = {"doi"}
    /\ records[last.oid].doi = ""
    /\ HasElem(xmlFiles[Sidecar(last.oid)], "doi")
    /\ ElemText(xmlFiles[Sidecar(last.oid)], "doi") = ""

\* C18, as claimed: an Update that gives title the empty text leaves the
\* stored title as it was.
C18_EmptyValueIsNoChange ==
    [][ \A id \in ReqIds :
          (/\ Served("update")
           /\ isValid(id) /\ CastObjectId(id) \in DOMAIN records
           /\ Update(id, [title |-> ""], NoFile, TRUE)) =>
              records'[CastObjectId(id)].title
                  = records[CastObjectId(id)].title ]_vars

\* C18, as amended: an Update that gives a text field the empty text is not
\* taken as no change.  Variant A, when it answers 200, has stored the empty
\* text; variant I never answers it 200 and leaves the records as they were.
C18_EmptyValueIsStoredOrRejected ==
    [][ (Served("update") /\ last'.empty # {}) =>
          IF variant = "A"
          THEN last'.status = 200 =>
                  \A f \in last'.empty : records'[last'.oid][f] = ""
          ELSE /\ last'.status \in {400, 500}
               /\ records' = records ]_vars

C18_Witness ==
    /\ variant = "A"
    /\ last.op = "update" /\ last.status = 200
    /\ last.empty = {"title"}
    /\ records[last.oid].title = ""

\* C19: for a record a Create produced (variant A) that still exists and whose
\* PDF file is in the uploads directory, download and view answer 200 with
\* the bytes of that file and the record's content type.
C19_StreamsAnswerStoredFile ==
    (/\ variant = "A"
     /\ last.op \in {"download", "view"}
     /\ last.oid \in created \cap DOMAIN records
     /\ existsSync(pdfFiles, records[last.oid].pdf)) =>
        /\ last.status = 200
        /\ last.body = FileBody(records[last.oid].pdf.name)
        /\ last.ctype = records[last.oid].pdfContentType

\* C20: when the remote answers the DELETE the proxy forwarded with 404, the
\* proxy answers its caller 404.
C20_ProxyDeleteReportsNotFound ==
    (last.op = "proxyDelete" /\ last.remote = 404) => last.status = 404

\* C21: in every state completed creates, updates and deletes reach, every
\* record that exists has an artifact reference that names a file present in
\* the uploads directory.
C21_EveryRecordHasItsArtifact ==
    \A o \in DOMAIN records : existsSync(pdfFiles, records[o].pdf)

\* C22: as long as no storage call has failed, every file in the uploads
\* directory is the artifact of exactly one record that exists.
C22_NoOrphanedArtifact ==
    faults = 0 =>
        \A n \in pdfFiles :
            Cardinality({o \in DOMAIN records :
                            records[o].pdf = filePath(variant, n)}) = 1

\* C24: a Create that succeeds stored its PDF under a name no file in the
\* uploads directory had before, and no other record refers to that file.
C24_CreatesGetDistinctNames ==
    [][ (Served("create") /\ last'.status = 201) =>
          /\ records'[last'.oid].pdf.name \notin pdfFiles
          /\ \A o \in DOMAIN records :
                records[o].pdf # records'[last'.oid].pdf ]_vars

\* The isSpecialIssue element of a sidecar says what the record stores.
SpecialTextMatches(xml, rec) ==
    /\ HasElem(xml, "isSpecialIssue")
    /\ ElemText(xml, "isSpecialIssue") \in {"true", "false"}
    /\ "isSpecialIssue" \in DOMAIN rec
    /\ ElemText(xml, "isSpecialIssue") = "true" <=> rec.isSpecialIssue

\* C27: in every sidecar a Create or an Update writes, the text of the
\* isSpecialIssue element is "true" or "false" and says what the record
\* stores, also when the request named no isSpecialIssue.
C27_SpecialIssueTextIsStoredValue ==
    [][ (Served("create") \/ Served("update")) =>
          /\ \A n \in DOMAIN xmlFiles' :
                (n \notin DOMAIN xmlFiles \/ xmlFiles'[n] # xmlFiles[n]) =>
                    SpecialTextMatches(xmlFiles'[n], records'[n.oid])
          /\ (variant = "A" /\ last'.status \in {200, 201}) =>
                /\ Sidecar(last'.oid) \in DOMAIN xmlFiles'
                /\ SpecialTextMatches(xmlFiles'[Sidecar(last'.oid)],
                                      records'[last'.oid]) ]_vars

\* C28: an Update that carries no PDF leaves the artifact reference and the
\* artifact content type of the record it reaches as they were, whatever its
\* body names, and the records keep their ids.
C28_UpdateKeepsArtifactReference ==
    [][ (Served("update") /\ last'.file = "none") =>
          /\ DOMAIN records' = DOMAIN records
          /\ \A o \in DOMAIN records :
                /\ records'[o].pdf = records[o].pdf
                /\ records'[o].pdfContentType = records[o].pdfContentType ]_vars

\* C23: once an Update and a Delete of the same record that ran concurrently
\* have both answered (variant A), the record is absent and neither its
\* sidecar nor its PDF file remains.  The request answered last is the Delete,
\* or the Update that was answered 200 for a record that is gone.
C23_UpdateAndDeleteLeaveNothing ==
    (/\ variant = "A"
     /\ pending = EmptyBag
     /\ last.op \in {"update", "delete"}
     /\ last.status = 200
     /\ last.oid \notin DOMAIN records) =>
        /\ Sidecar(last.oid) \notin DOMAIN xmlFiles
        /\ ~existsSync(pdfFiles, last.pdf[1])

\* C25: once two Updates of the same record that ran concurrently have both
\* answered 200 (variant A), the sidecar holds the text of each value of the
\* record as it is stored.
C25_ConcurrentUpdatesLeaveTrueSidecar ==
    (/\ variant = "A"
     /\ pending = EmptyBag
     /\ last.op = "update"
     /\ last.status = 200
     /\ last.oid \in DOMAIN records) =>
        /\ Sidecar(last.oid) \in DOMAIN xmlFiles
        /\ xmlFiles[Sidecar(last.oid)]
              = xmlOfRecord(records[last.oid], last.oid, records[last.oid].doi)

\* A step in which the handler of an op request answers with status.
Answers(op, status) ==
    /\ BagCardinality(pending') < BagCardinality(pending)
    /\ last'.op = op /\ last'.status = status

\* The handlers that are on their way after a step and were not before it.
Set(op, at) ==
    {e \in BagToSet(pending') :
        /\ e.op = op /\ e.at = at
        /\ CopiesIn(e, pending') > CopiesIn(e, pending)}

\* The handlers that were on their way before a step and are not after it.
Left(op, at) ==
    {e \in BagToSet(pending) :
        /\ e.op = op /\ e.at = at
        /\ CopiesIn(e, pending) > CopiesIn(e, pending')}

\* C26: the steps of the lifecycle come in order.  Create: the PDF is in the
\* uploads directory when the handler sets out to insert, the insert takes up
\* such a handler and touches no file, and a sidecar is written only for a
\* record inserted in an earlier step.  Delete: a PDF file or a sidecar is
\* removed only by a Delete that answers 200, in a step after the one that
\* deleted the record, and a Delete that found no record removes no file.
C26_LifecycleStepsInOrder ==
    [][ /\ Set("create", "save") # {} =>
                filename(clock, PdfFile) \in pdfFiles'
        /\ \A o \in (DOMAIN records') \ DOMAIN records :
              /\ \E p \in Left("create", "save") : p.doc = <<records'[o]>>
              /\ pdfFiles' = pdfFiles
              /\ xmlFiles' = xmlFiles
        /\ \A n \in DOMAIN xmlFiles' :
              (n \notin DOMAIN xmlFiles \/ xmlFiles'[n] # xmlFiles[n]) =>
                  /\ n.oid \in created
                  /\ records' = records
        /\ Answers("create", 201) =>
              /\ last'.oid \in created
              /\ Sidecar(last'.oid) \in DOMAIN xmlFiles'
        /\ (\/ pdfFiles' \subseteq pdfFiles /\ pdfFiles' # pdfFiles
            \/ \E n \in DOMAIN xmlFiles : n \notin DOMAIN xmlFiles') =>
              /\ Answers("delete", 200)
              /\ last'.oid \notin DOMAIN records
              /\ records' = records
        /\ Answers("delete", 404) =>
              /\ pdfFiles' = pdfFiles
              /\ xmlFiles' = xmlFiles
              /\ records' = records ]_vars

C26_Witness ==
    /\ variant = "A" /\ pending = EmptyBag
    /\ last.op = "delete" /\ last.status = 200
    /\ last.pdf[1].name = filename(1, PdfFile)
    /\ last.oid \notin DOMAIN records
    /\ Sidecar(last.oid) \notin DOMAIN xmlFiles
    /\ ~existsSync(pdfFiles, last.pdf[1])

====
